---- MODULE Spec2Model ----
(***************************************************************************)
(* Three parts of the repository, each checked on its own while the other  *)
(* two are at rest:                                                        *)
(*   - extract_data_with_selectors (src/scraper_utils.py, 59-182), the     *)
(*     CSS-selector driven, optionally paginated extraction routine        *)
(*     (Spec, FairSpec);                                                   *)
(*   - one session of the Streamlit app (src/app.py): navigation, the      *)
(*     scrape handlers, the history (AppSpec);                             *)
(*   - the subprocess fallbacks _scrape_twitter_subprocess and             *)
(*     _scrape_reddit_subprocess of src/social_media_scraper.py (SubSpec). *)
(*                                                                         *)
(* Strings are sequences of tokens.  The characters the code inspects      *)
(* ("h","t","p","s",":","/","?"," ") are tokens of their own; every other  *)
(* token ("example.com", "blog", "Hello") stands for a non-empty run of    *)
(* characters that holds no "/", no "?" and no white space and does not    *)
(* begin with "http".  The empty string is <<>>.                           *)
(* A Python value that may be None is a sequence of length 0 (None) or 1.  *)
(***************************************************************************)
EXTENDS Integers, Sequences, FiniteSets, TLC

VARIABLES
    url,                \* argument: URL of the first page
    selectors,          \* argument: ordered dict field name -> CSS selector
    attribute_name,     \* argument: <<>> (None) or <<name>>
    pagination_config,  \* argument: <<>> (None) or <<dict>>
    pc,                 \* position of the call in the function body
    results,            \* local: accumulated rows
    current_url,        \* local
    page_count,         \* local
    max_pages,          \* local
    soup,               \* local: the parsed document of the current page
    i,                  \* local: index of the list-mode loop
    max_items,          \* local
    next_href,          \* local: <<>> or <<href>> of the next button found
    returned,           \* what the caller receives: <<>> or <<list of rows>>
    error,              \* the exception that left the function: <<>> or <<e>>
    fetched,            \* history: the URLs requests.get was called with
    responses,          \* history: what each of these calls gave
    delays              \* history: number of time.sleep(1) calls made

vars == <<url, selectors, attribute_name, pagination_config, pc, results,
          current_url, page_count, max_pages, soup, i, max_items, next_href,
          returned, error, fetched, responses, delays>>

args == <<url, selectors, attribute_name, pagination_config>>

(***************************************************************************)
(* The session of the app: st.session_state, the sidebar radio, and what   *)
(* the last script run left on the screen.                                 *)
(***************************************************************************)
VARIABLES
    page,               \* the option selected in the sidebar radio
    current_view,       \* st.session_state.current_view
    scraped_data,       \* st.session_state.scraped_data: <<>> (None) or <<d>>
    scraping_history,   \* st.session_state.scraping_history
    rendered,           \* the page the last script run rendered
    rerun,              \* a rerun was asked for (st.rerun) and has not run yet
    attempts,           \* history: number of scrape attempts made
    outcome             \* history: what the scrape call of the last attempt gave

appvars == <<page, current_view, scraped_data, scraping_history, rendered, rerun,
             attempts, outcome>>

(***************************************************************************)
(* One call of a subprocess fallback, and the temporary files there are.   *)
(***************************************************************************)
VARIABLES
    fn,                 \* the fallback called: "twitter" or "reddit"
    scrape_type,        \* argument (reddit only)
    query,              \* argument
    max_results,        \* argument limit
    spc,                \* where the call is
    files,              \* the files that exist in the temporary directory
    tmp_filename,       \* local: <<>> before line 77 / 294, then <<name>>
    created,            \* history: the files the call created
    df,                 \* local tweets_df / posts_df, <<>> before line 85 /
                        \* 302; what the caller receives in the end
    raised              \* the exception in flight, <<>> or <<e>>; the one
                        \* that leaves the call in the end

subvars == <<fn, scrape_type, query, max_results, spc, files, tmp_filename, created,
             df, raised>>

(***************************************************************************)
(* The parts at rest.                                                      *)
(***************************************************************************)
\* no call of extract_data_with_selectors is under way
CallIdle ==
    /\ url = <<>>
    /\ selectors = <<>>
    /\ attribute_name = <<>>
    /\ pagination_config = <<>>
    /\ pc = "idle"
    /\ results = <<>>
    /\ current_url = <<>>
    /\ page_count = 0
    /\ max_pages = 0
    /\ soup = <<>>
    /\ i = 0
    /\ max_items = 0
    /\ next_href = <<>>
    /\ returned = <<>>
    /\ error = <<>>
    /\ fetched = <<>>
    /\ responses = <<>>
    /\ delays = 0

\* the session as the first script run leaves it: lines 22-28, the radio
\* on its first option, the Home page on the screen
SessionInit ==
    /\ page = "Home"
    /\ current_view = "home"
    /\ scraped_data = <<>>
    /\ scraping_history = <<>>
    /\ rendered = "Home"
    /\ rerun = FALSE
    /\ attempts = 0
    /\ outcome = <<>>

\* no call of a subprocess fallback is under way
SubIdle ==
    /\ fn = ""
    /\ scrape_type = ""
    /\ query = <<>>
    /\ max_results = 0
    /\ spc = "idle"
    /\ files = {}
    /\ tmp_filename = <<>>
    /\ created = {}
    /\ df = <<>>
    /\ raised = <<>>

(***************************************************************************)
(* Bounds of the model.                                                    *)
(***************************************************************************)
MaxPagesBound == 3

(***************************************************************************)
(* Strings.                                                                *)
(***************************************************************************)
EmptyStr == <<>>

IsSpace(c) == c = " "

RECURSIVE LStrip(_)
LStrip(s) == IF s # <<>> /\ IsSpace(Head(s)) THEN LStrip(Tail(s)) ELSE s

RECURSIVE RStrip(_)
RStrip(s) ==
    IF s # <<>> /\ IsSpace(s[Len(s)]) THEN RStrip(SubSeq(s, 1, Len(s) - 1)) ELSE s

\* str.strip()
Strip(s) == RStrip(LStrip(s))

\* str.startswith(prefix)
StartsWith(s, prefix) ==
    Len(s) >= Len(prefix) /\ SubSeq(s, 1, Len(prefix)) = prefix

RECURSIVE Concat(_)
Concat(ss) == IF ss = <<>> THEN <<>> ELSE Head(ss) \o Concat(Tail(ss))

\* Python truth value of a str
Truthy(s) == s # EmptyStr

(***************************************************************************)
(* Python dicts: functions; d.get(k, default); d[k] = v.                   *)
(***************************************************************************)
EmptyDict == <<>>

Get(d, k, default) == IF k \in DOMAIN d THEN d[k] ELSE default

DictSet(d, k, v) == [x \in (DOMAIN d) \cup {k} |-> IF x = k THEN v ELSE d[x]]

(***************************************************************************)
(* URLs and link targets the model draws its inputs from.                  *)
(***************************************************************************)
Http == <<"h", "t", "t", "p">>
HttpsScheme == Http \o <<"s", ":", "/", "/">>
HttpScheme == Http \o <<":", "/", "/">>

UrlPage1 == HttpsScheme \o <<"example.com", "/", "blog", "/", "page1">>
UrlNoPath == HttpsScheme \o <<"example.com">>
UrlQuery == HttpsScheme \o <<"example.com", "?", "q=1">>
UrlPlain == HttpScheme \o <<"example.com", "/">>
UrlNoScheme == <<"example.com", "/", "blog">>

Urls == {UrlPage1, UrlNoPath, UrlQuery, UrlPlain, UrlNoScheme}

HrefRooted == <<"/", "blog", "/", "page2">>
HrefRelative == <<"page3.html">>
HrefAbsolute == HttpsScheme \o <<"other.org", "/", "x">>
HrefHttpDir == Http \o <<"docs", "/", "p2">>

(***************************************************************************)
(* Documents.  An element is its text nodes, in document order, and its    *)
(* attributes; a document gives, for every well-formed selector, the       *)
(* elements it matches in document order (soup.select).                    *)
(***************************************************************************)
El(strings, attrs) == [strings |-> strings, attrs |-> attrs]

NoAttrs == [x \in {} |-> EmptyStr]
Href(h) == [href |-> h]

ElHello == El(<< <<"Hello">> >>, Href(HrefRooted))
ElNested == El(<< <<"Hello", " ">>, <<"World">> >>, NoAttrs)
ElPadded == El(<< <<" ", "Hi", " ">> >>, Href(HrefRelative))
ElBlank == El(<< <<" ">> >>, NoAttrs)
ElNoText == El(<< >>, Href(EmptyStr))
ElNextRooted == El(<< <<"next">> >>, Href(HrefRooted))
ElNextRelative == El(<< <<"next">> >>, Href(HrefRelative))
ElNextAbsolute == El(<< <<"next">> >>, Href(HrefAbsolute))
ElNextHttpDir == El(<< <<"next">> >>, Href(HrefHttpDir))
ElNextNoHref == El(<< <<"next">> >>, NoAttrs)
ElNextEmptyHref == El(<< <<"next">> >>, Href(EmptyStr))

WellFormedSelectors == {"h2", "a", "a.next"}
\* selectors the CSS parser rejects: the empty one, an unclosed bracket
MalformedSelectors == {"", "a["}

Doc(h2, a, next) == [x \in WellFormedSelectors |->
                        IF x = "h2" THEN h2 ELSE IF x = "a" THEN a ELSE next]

DocList3 == Doc(<<ElHello, ElNested, ElBlank>>, <<ElHello>>, <<ElNextRooted>>)
DocList2 == Doc(<<ElBlank, ElHello>>, <<ElPadded, ElHello, ElNoText>>,
                <<ElNextRelative, ElNextAbsolute>>)
DocSingle == Doc(<<ElPadded>>, <<ElHello, ElPadded>>, <<ElNextRelative>>)
DocBlank == Doc(<<ElBlank>>, <<>>, <<ElNextAbsolute>>)
DocEmpty == Doc(<<>>, <<>>, <<>>)
DocNoHref == Doc(<<ElNested>>, <<ElNoText>>, <<ElNextNoHref>>)
DocEmptyHref == Doc(<<ElHello>>, <<>>, <<ElNextEmptyHref>>)
DocHttpDir == Doc(<<>>, <<ElPadded>>, <<ElNextHttpDir>>)

Docs == {DocList3, DocList2, DocSingle, DocBlank, DocEmpty, DocNoHref,
         DocEmptyHref, DocHttpDir}

\* What requests.get gives: no response at all (it raises; status 0 here),
\* or the status and body of the final response, redirects followed.
Responses == {[status |-> 0], [status |-> 404], [status |-> 500]}
                 \cup {[status |-> 200, doc |-> d] : d \in Docs}

(***************************************************************************)
(* The arguments the model draws from.                                     *)
(***************************************************************************)
Sel(f, s) == [field |-> f, selector |-> s]

SelectorMaps == {
    << >>,
    << Sel("title", "h2") >>,
    << Sel("title", "h2"), Sel("link", "a") >>,
    << Sel("link", "a"), Sel("title", "h2") >>,
    << Sel("title", "h2"), Sel("link", "a[") >> }

AttributeNames == {<<>>, <<"">>, <<"href">>}

MaxPagesValues == {-1} \cup (0 .. MaxPagesBound)

PaginationConfigs ==
    {<<>>}
        \cup {<<[enabled |-> FALSE, selector |-> "a.next", max_pages |-> MaxPagesBound]>>}
        \cup {<<[enabled |-> TRUE, selector |-> "a.next", max_pages |-> m]>> :
                 m \in MaxPagesValues}
        \cup {<<[enabled |-> TRUE, selector |-> "a[", max_pages |-> 2]>>}
        \cup {<<[enabled |-> TRUE, selector |-> "a.next"]>>}


(***************************************************************************)
(* The document operations the routine uses.                               *)
(***************************************************************************)
\* soup.select(selector) raises on a selector that is not well-formed
SelectRaises(selector) == selector \notin WellFormedSelectors

\* soup.select(selector)
Select(doc, selector) == doc[selector]

RECURSIVE StrippedStrings(_)
StrippedStrings(strings) ==
    IF strings = <<>> THEN <<>>
    ELSE LET s == Strip(Head(strings))
         IN  (IF s = EmptyStr THEN <<>> ELSE <<s>>) \o StrippedStrings(Tail(strings))

\* element.get_text(strip=True): every text node stripped, the empty ones
\* dropped, the rest joined with the default separator ''
GetTextStrip(el) == Concat(StrippedStrings(el.strings))

\* element.get(attribute_name, '')
GetAttr(el, name) == Get(el.attrs, name, EmptyStr)

\* Python truth value of the attribute_name argument
AttrGiven(attr) == attr # <<>> /\ attr[1] # ""

\* lines 118-123 and 136-141
Extract(el, attr) ==
    IF AttrGiven(attr) THEN GetAttr(el, attr[1]) ELSE GetTextStrip(el)

\* any(item_data.values())
AnyValue(item) == \E f \in DOMAIN item : Truthy(item[f])

\* lines 114-125: item_data after the first k fields, for element index idx
RECURSIVE ListItemData(_, _, _, _, _)
ListItemData(sels, k, doc, attr, idx) ==
    IF k = 0 THEN EmptyDict
    ELSE LET elements == Select(doc, sels[k].selector)
             value == IF idx < Len(elements)
                      THEN Extract(elements[idx + 1], attr)
                      ELSE EmptyStr
         IN  DictSet(ListItemData(sels, k - 1, doc, attr, idx), sels[k].field, value)

\* SingleItemData that takes the last match of a field for the first
RECURSIVE SingleItemDataLast(_, _, _, _)
SingleItemDataLast(sels, k, doc, attr) ==
    IF k = 0 THEN EmptyDict
    ELSE LET elements == Select(doc, sels[k].selector)
             value == IF elements # <<>>
                      THEN Extract(elements[Len(elements)], attr)
                      ELSE EmptyStr
         IN  DictSet(SingleItemDataLast(sels, k - 1, doc, attr), sels[k].field, value)

\* SingleItemData without the else branch of lines 142-143
RECURSIVE SingleItemDataNoElse(_, _, _, _)
SingleItemDataNoElse(sels, k, doc, attr) ==
    IF k = 0 THEN EmptyDict
    ELSE LET elements == Select(doc, sels[k].selector)
             rest == SingleItemDataNoElse(sels, k - 1, doc, attr)
         IN  IF elements # <<>>
             THEN DictSet(rest, sels[k].field, Extract(elements[1], attr))
             ELSE rest

\* lines 132-143: item_data after the first k fields
RECURSIVE SingleItemData(_, _, _, _)
SingleItemData(sels, k, doc, attr) ==
    IF k = 0 THEN EmptyDict
    ELSE LET elements == Select(doc, sels[k].selector)
             value == IF elements # <<>>
                      THEN Extract(elements[1], attr)
                      ELSE EmptyStr
         IN  DictSet(SingleItemData(sels, k - 1, doc, attr), sels[k].field, value)

\* AppendNonEmpty that puts the row in front
PrependNonEmpty(rows, item) == IF AnyValue(item) THEN <<item>> \o rows ELSE rows

\* AppendNonEmpty without the test of lines 128 and 146
AppendAlways(rows, item) == Append(rows, item)

\* lines 127-129 and 145-147
AppendNonEmpty(rows, item) == IF AnyValue(item) THEN Append(rows, item) ELSE rows

\* MaxMatches that counts the matches of the first selector only
MaxMatchesOfFirst(sels, k, doc) == Len(Select(doc, sels[1].selector))

\* line 110
RECURSIVE MaxMatches(_, _, _)
MaxMatches(sels, k, doc) ==
    IF k = 0 THEN 0
    ELSE LET n == Len(Select(doc, sels[k].selector))
             m == MaxMatches(sels, k - 1, doc)
         IN  IF n > m THEN n ELSE m

AnySelectorRaises(sels) == \E k \in DOMAIN sels : SelectRaises(sels[k].selector)

\* IsListExtraction that looks at every selector, as the comment of line
\* 102 words it
IsListExtractionAny(sels, doc) ==
    \E k \in DOMAIN sels : Len(Select(doc, sels[k].selector)) > 1

\* lines 103-106
IsListExtraction(sels, doc) == Len(Select(doc, sels[1].selector)) > 1

(***************************************************************************)
(* Resolution of the next-page link, lines 156-169.                        *)
(***************************************************************************)
RECURSIVE NonSlashRunEnd(_, _)
NonSlashRunEnd(u, k) ==
    IF k < Len(u) /\ u[k + 1] # "/" THEN NonSlashRunEnd(u, k + 1) ELSE k

\* re.match(r'(https?://[^/]+)', u): <<>> when there is no match, else
\* <<group(1)>>
BaseUrlMatch(u) ==
    LET p == IF StartsWith(u, Http \o <<"s">>) THEN 5 ELSE 4
        e == NonSlashRunEnd(u, p + 3)
    IN  IF /\ StartsWith(u, Http)
           /\ Len(u) >= p + 3
           /\ SubSeq(u, p + 1, p + 3) = <<":", "/", "/">>
           /\ e > p + 3
        THEN <<SubSeq(u, 1, e)>>
        ELSE <<>>

RECURSIVE LastSlash(_, _)
LastSlash(u, k) ==
    IF k = 0 THEN 0 ELSE IF u[k] = "/" THEN k ELSE LastSlash(u, k - 1)

\* u.rsplit('/', 1)[0]
RSplitHead(u) ==
    LET k == LastSlash(u, Len(u)) IN IF k = 0 THEN u ELSE SubSeq(u, 1, k - 1)

\* lines 162-163
RootedUrl(cur, href) ==
    IF BaseUrlMatch(cur) = <<>> THEN <<>> ELSE <<BaseUrlMatch(cur)[1] \o href>>

\* lines 166-167
RelativeUrl(cur, href) == <<RSplitHead(cur) \o <<"/">> \o href>>

\* lines 159-169: <<next_url>>, or <<>> when line 162 raises
NextUrl(cur, href) ==
    IF StartsWith(href, Http) THEN <<href>>
    ELSE IF StartsWith(href, <<"/">>) THEN RootedUrl(cur, href)
    ELSE RelativeUrl(cur, href)


(***************************************************************************)
(* The call.                                                               *)
(***************************************************************************)
\* PaginationEnabled that tests only that a config was passed
PaginationConfigGiven(config) == config # <<>> /\ DOMAIN config[1] # {}

\* pagination_config and pagination_config.get('enabled', False)
PaginationEnabled(config) ==
    config # <<>> /\ DOMAIN config[1] # {} /\ Get(config[1], "enabled", FALSE)

\* MaxPagesOf that raises a max_pages below 1 to 1
MaxPagesAtLeastOne(config) ==
    IF PaginationEnabled(config) /\ Get(config[1], "max_pages", 1) >= 1
    THEN Get(config[1], "max_pages", 1)
    ELSE 1

\* lines 86-89
MaxPagesOf(config) ==
    IF PaginationEnabled(config) THEN Get(config[1], "max_pages", 1) ELSE 1

\* LoopContinues with <= for <
LoopContinuesInclusive(count, limit) == count <= limit

\* line 91
LoopContinues(count, limit) == count < limit

\* requests.get raises for a URL without an http(s) scheme and a host; for
\* any other URL the outcome is the network's choice
HasHost(u, scheme) ==
    StartsWith(u, scheme) /\ Len(u) > Len(scheme) /\ u[Len(scheme) + 1] \notin {"/", "?"}

FetchResponses(u) ==
    IF HasHost(u, HttpsScheme) \/ HasHost(u, HttpScheme)
    THEN Responses
    ELSE {[status |-> 0]}

\* requests.get returned and response.raise_for_status() does not raise
IsSuccess(response) ==
    response.status # 0 /\ ~(400 <= response.status /\ response.status < 600)

\* SelectOne that takes the last match for the first
SelectOneLast(doc, selector) ==
    IF Select(doc, selector) = <<>>
    THEN <<>>
    ELSE <<Select(doc, selector)[Len(Select(doc, selector))]>>

\* soup.select_one(selector): <<>> for None
SelectOne(doc, selector) ==
    IF Select(doc, selector) = <<>> THEN <<>> ELSE <<Select(doc, selector)[1]>>

\* line 154: next_button and next_button.get('href')
HasNextLink(button) ==
    button # <<>> /\ "href" \in DOMAIN button[1].attrs /\ Truthy(button[1].attrs["href"])

Init ==
    /\ url \in Urls
    /\ selectors \in SelectorMaps
    /\ attribute_name \in AttributeNames
    /\ pagination_config \in PaginationConfigs
    /\ pc = "call"
    /\ results = <<>>
    /\ current_url = EmptyStr
    /\ page_count = 0
    /\ max_pages = 0
    /\ soup = <<>>
    /\ i = 0
    /\ max_items = 0
    /\ next_href = <<>>
    /\ returned = <<>>
    /\ error = <<>>
    /\ fetched = <<>>
    /\ responses = <<>>
    /\ delays = 0
    /\ SessionInit
    /\ SubIdle

\* str(e) of the exception soup.select raises on a malformed selector
SyntaxErrorText == <<"Malformed", " ", "selector">>

\* Raise that swallows the exception and returns what was gathered
ReturnPartial(cause, text) ==
    /\ pc' = "done"
    /\ error' = <<>>
    /\ returned' = <<results>>

\* line 182: the message of the exception raised, for str(e) = text
FailureMessage(text) ==
    <<"Failed", " ", "to", " ", "extract", " ", "data", " ", "with", " ",
      "selectors", ":", " ">> \o text

\* lines 181-182: the exception e (of type cause, str(e) = text) is caught
\* and an Exception with the message of line 182 leaves the function;
\* nothing is returned
Raise(cause, text) ==
    /\ pc' = "failed"
    /\ error' = <<[cause |-> cause, message |-> FailureMessage(text)]>>
    /\ returned' = <<>>

\* lines 83-89
Enter ==
    /\ pc = "call"
    /\ results' = <<>>
    /\ current_url' = url
    /\ page_count' = 0
    /\ max_pages' = MaxPagesOf(pagination_config)
    /\ pc' = "while"
    /\ UNCHANGED <<appvars, subvars, args, soup, i, max_items, next_href, returned, error,
                   fetched, responses, delays>>

\* line 91
While ==
    /\ pc = "while"
    /\ pc' = IF LoopContinues(page_count, max_pages) THEN "fetch" ELSE "return"
    /\ UNCHANGED <<appvars, subvars, args, results, current_url, page_count, max_pages, soup, i,
                   max_items, next_href, returned, error, fetched, responses, delays>>

\* FetchFailure that tries the request again
FetchRetry(response) ==
    /\ pc' = "fetch"
    /\ UNCHANGED <<soup, returned, error>>

\* str(e) of the exception of a failed fetch of u: the HTTPError of
\* raise_for_status names the URL; of the exceptions of requests.get, the
\* one for a URL without scheme names it, a broken connection does not
StrOfFetchError(response, u) ==
    IF response.status # 0
    THEN <<ToString(response.status), " ", "Error", " ", "for", " ", "url", ":", " ">> \o u
    ELSE IF FetchResponses(u) = Responses
    THEN <<"Connection", " ", "aborted.">>
    ELSE <<"Invalid", " ", "URL", " ">> \o u \o <<":", " ", "No", " ", "scheme", " ", "supplied.">>

\* line 96 raising, or requests.get raising
FetchFailure(response) ==
    /\ Raise(IF response.status = 0 THEN "RequestException" ELSE "HTTPError",
             StrOfFetchError(response, current_url))
    /\ UNCHANGED soup

\* lines 93-99
Fetch ==
    /\ pc = "fetch"
    /\ fetched' = Append(fetched, current_url)
    /\ \E response \in FetchResponses(current_url) :
           /\ responses' = Append(responses, response)
           /\ IF IsSuccess(response)
              THEN /\ soup' = <<response.doc>>
                   /\ pc' = "detect"
                   /\ UNCHANGED <<returned, error>>
              ELSE FetchFailure(response)
    /\ UNCHANGED <<appvars, subvars, args, results, current_url, page_count, max_pages, i,
                   max_items, next_href, delays>>

\* lines 101-110
Detect ==
    /\ pc = "detect"
    /\ IF selectors = <<>>
       THEN Raise("IndexError", <<"list", " ", "index", " ", "out", " ", "of", " ", "range">>) /\ UNCHANGED <<i, max_items>>
       ELSE IF SelectRaises(selectors[1].selector)
       THEN Raise("SelectorSyntaxError", SyntaxErrorText) /\ UNCHANGED <<i, max_items>>
       ELSE IF ~IsListExtraction(selectors, soup[1])
       THEN pc' = "single" /\ UNCHANGED <<i, max_items, returned, error>>
       ELSE IF AnySelectorRaises(selectors)
       THEN Raise("SelectorSyntaxError", SyntaxErrorText) /\ UNCHANGED <<i, max_items>>
       ELSE /\ max_items' = MaxMatches(selectors, Len(selectors), soup[1])
            /\ i' = 0
            /\ pc' = "list"
            /\ UNCHANGED <<returned, error>>
    /\ UNCHANGED <<appvars, subvars, args, results, current_url, page_count, max_pages, soup,
                   next_href, fetched, responses, delays>>

\* lines 113-129, one iteration
ListItem ==
    /\ pc = "list"
    /\ i < max_items
    /\ results' = AppendNonEmpty(results,
                      ListItemData(selectors, Len(selectors), soup[1], attribute_name, i))
    /\ i' = i + 1
    /\ pc' = IF i + 1 < max_items THEN "list" ELSE "paginate"
    /\ UNCHANGED <<appvars, subvars, args, current_url, page_count, max_pages, soup, max_items,
                   next_href, returned, error, fetched, responses, delays>>

\* lines 131-147
Single ==
    /\ pc = "single"
    /\ IF AnySelectorRaises(selectors)
       THEN Raise("SelectorSyntaxError", SyntaxErrorText) /\ UNCHANGED results
       ELSE /\ results' = AppendNonEmpty(results,
                              SingleItemData(selectors, Len(selectors), soup[1],
                                             attribute_name))
            /\ pc' = "paginate"
            /\ UNCHANGED <<returned, error>>
    /\ UNCHANGED <<appvars, subvars, args, current_url, page_count, max_pages, soup, i, max_items,
                   next_href, fetched, responses, delays>>

\* NextPageCount that leaves the counter as it is
SamePageCount(count) == count

\* line 149
NextPageCount(count) == count + 1

\* Break that goes on with the loop
Continue == pc' = "while"

\* lines 173-178: break
Break == pc' = "return"

\* lines 149-178
Paginate ==
    /\ pc = "paginate"
    /\ page_count' = NextPageCount(page_count)
    /\ IF ~PaginationEnabled(pagination_config)
       THEN Break /\ UNCHANGED <<current_url, next_href, returned, error>>
       ELSE LET selector == Get(pagination_config[1], "selector", "") IN
            IF SelectRaises(selector)
            THEN Raise("SelectorSyntaxError", SyntaxErrorText) /\ UNCHANGED <<current_url, next_href>>
            ELSE LET next_button == SelectOne(soup[1], selector) IN
                 IF ~HasNextLink(next_button)
                 THEN Break /\ UNCHANGED <<current_url, next_href, returned, error>>
                 ELSE LET next_url == NextUrl(current_url, next_button[1].attrs["href"]) IN
                      IF next_url = <<>>
                      THEN Raise("AttributeError", <<"'NoneType'", " ", "object", " ", "has", " ", "no", " ", "attribute", " ", "'group'">>) /\ UNCHANGED <<current_url, next_href>>
                      ELSE /\ current_url' = next_url[1]
                           /\ next_href' = <<next_button[1].attrs["href"]>>
                           /\ pc' = "sleep"
                           /\ UNCHANGED <<returned, error>>
    /\ UNCHANGED <<appvars, subvars, args, results, max_pages, soup, i, max_items, fetched, responses,
                   delays>>

\* Sleep without the call of line 172
NoSleep ==
    /\ pc = "sleep"
    /\ pc' = "while"
    /\ UNCHANGED <<appvars, subvars, args, results, current_url, page_count, max_pages, soup, i,
                   max_items, next_href, returned, error, fetched, responses, delays>>

\* line 172
Sleep ==
    /\ pc = "sleep"
    /\ delays' = delays + 1
    /\ pc' = "while"
    /\ UNCHANGED <<appvars, subvars, args, results, current_url, page_count, max_pages, soup, i,
                   max_items, next_href, returned, error, fetched, responses>>

\* line 180
Return ==
    /\ pc = "return"
    /\ returned' = <<results>>
    /\ pc' = "done"
    /\ UNCHANGED <<appvars, subvars, args, results, current_url, page_count, max_pages, soup, i,
                   max_items, next_href, error, fetched, responses, delays>>

Next ==
    \/ Enter
    \/ While
    \/ Fetch
    \/ Detect
    \/ ListItem
    \/ Single
    \/ Paginate
    \/ Sleep
    \/ Return

Spec == Init /\ [][Next]_vars

\* The call is one sequential activation: as long as a step of it is
\* possible (every fetch and every sleep completes) one is taken.
FairSpec == Spec /\ WF_vars(Next)



(***************************************************************************)
(* The app, src/app.py.  A step is one interaction of the user with what   *)
(* is on the screen and the script run it sets off, or the script run a    *)
(* st.rerun() asked for.  Strings here are sequences of opaque tokens.     *)
(* The model's clock ticks once per scrape attempt.                        *)
(***************************************************************************)
MaxAttempts == 2

\* the options of the sidebar radio, lines 36-39
Pages == {"Home", "Web Scraper", "Social Media Scraper", "Data Visualization",
          "Export Data", "Scraping History"}

\* the if/elif chain of lines 42, 72, 216, 392, 558 and 630: the page the
\* script renders
Branch(p, view) ==
    IF p = "Home" THEN "Home"
    ELSE IF p = "Web Scraper" \/ view = "web" THEN "Web Scraper"
    ELSE IF p = "Social Media Scraper" \/ view = "social" THEN "Social Media Scraper"
    ELSE p

\* lines 43, 73 and 217; the other three pages leave current_view alone
ViewAfter(branch, view) ==
    IF branch = "Home" THEN "home"
    ELSE IF branch = "Web Scraper" THEN "web"
    ELSE IF branch = "Social Media Scraper" THEN "social"
    ELSE view

\* what the user may have typed into the text inputs
UrlInputs == {<<"https://example.com">>, <<"https://example.org/t">>}
NameInputs == {<<"python">>}
TableNumbers == {0, 1}

\* str(e) of the exceptions the scrape calls raise
ErrorTexts(call) ==
    IF call = "scrape_website" THEN {<<"Failed to scrape website: ", "timeout">>}
    ELSE IF call = "extract_data_with_selectors"
    THEN {<<"Failed to extract data with selectors: ", "404">>}
    ELSE IF call = "scrape_reddit" THEN {<<"Failed to scrape Reddit data: ", "403">>}
    ELSE IF call = "read_html" THEN {<<"No tables found">>}
    ELSE {<<>>}

\* what a call returns, named by the call that gives it
Result(call, arg) == <<call>> \o arg

\* how a scrape call ended: it returned (n tables, for pd.read_html), or it
\* raised an exception e with str(e) = text; wanted is the table_number the
\* handler goes on to look up (0 where there is none)
Returned(call, arg, n) ==
    [call |-> call, arg |-> arg, ok |-> TRUE, tables |-> n, text |-> <<>>,
     wanted |-> 0]
Raising(call, arg, text) ==
    [call |-> call, arg |-> arg, ok |-> FALSE, tables |-> 0, text |-> text,
     wanted |-> 0]

\* the ways a scrape call can end
Outcomes(call, arg) ==
    {Returned(call, arg, 0)} \cup {Raising(call, arg, text) : text \in ErrorTexts(call)}

\* pd.read_html(url, ...): a non-empty list of tables, or an exception
ReadHtmlOutcomes(u) ==
    {Returned("read_html", u, 1), Returned("read_html", u, 2)}
        \cup {Raising("read_html", u, text) : text \in ErrorTexts("read_html")}

\* tables[table_number]
Table(u, table_number) == Result("read_html", u \o <<ToString(table_number)>>)

\* datetime.now().strftime(...)
Now == attempts + 1

Success == <<"Success">>
Failed(text) == <<"Failed", ":", " ">> \o text

\* the dict of lines 91-96
Entry(source, type, status) ==
    [timestamp |-> Now, source |-> source, type |-> type, status |-> status]

\* Record that overwrites the last entry
RecordOver(history, entry) ==
    IF history = <<>> THEN <<entry>> ELSE [history EXCEPT ![Len(history)] = entry]

\* st.session_state.scraping_history.append(entry)
Record(history, entry) == Append(history, entry)

\* DataAfterFailure that drops the data
DataDropped(data) == <<>>

\* the except branches (lines 99-106) assign nothing to scraped_data
DataAfterFailure(data) == data

\* the top of a script run in which a button of page b is pressed: the
\* chain of lines 42-630 has to reach the branch of that page again
ButtonRun(b) ==
    /\ ~rerun
    /\ rendered = b
    /\ Branch(page, current_view) = b
    /\ rendered' = b
    /\ page' = page

\* the try/except of a scrape handler (lines 88-106): the call gave o; when
\* it returned, value is the data kept under dtype
Handler(o, works, value, dtype, source, type, text) ==
    /\ attempts < MaxAttempts
    /\ attempts' = attempts + 1
    /\ outcome' = <<o>>
    /\ rerun' = FALSE
    /\ IF works
       THEN /\ scraped_data' = <<[type |-> dtype, data |-> value, source |-> source]>>
            /\ scraping_history' = Record(scraping_history, Entry(source, type, Success))
       ELSE /\ scraped_data' = DataAfterFailure(scraped_data)
            /\ scraping_history' = Record(scraping_history, Entry(source, type, Failed(text)))
    /\ UNCHANGED <<vars, subvars>>

\* the sidebar radio is set to p: a script run with no button pressed
SelectPage ==
    /\ ~rerun
    /\ \E p \in Pages \ {page} :
           /\ page' = p
           /\ rendered' = Branch(p, current_view)
           /\ current_view' = ViewAfter(Branch(p, current_view), current_view)
    /\ UNCHANGED <<scraped_data, scraping_history, rerun, attempts, outcome>>
    /\ UNCHANGED <<vars, subvars>>

\* lines 63-65, after line 43
ClickWebScraping ==
    /\ ButtonRun("Home")
    /\ current_view' = "web"
    /\ rerun' = TRUE
    /\ UNCHANGED <<scraped_data, scraping_history, attempts, outcome>>
    /\ UNCHANGED <<vars, subvars>>

\* lines 67-69, after line 43
ClickSocialMediaScraping ==
    /\ ButtonRun("Home")
    /\ current_view' = "social"
    /\ rerun' = TRUE
    /\ UNCHANGED <<scraped_data, scraping_history, attempts, outcome>>
    /\ UNCHANGED <<vars, subvars>>

\* the script run st.rerun() asked for: no button is pressed in it
Rerun ==
    /\ rerun
    /\ rerun' = FALSE
    /\ rendered' = Branch(page, current_view)
    /\ current_view' = ViewAfter(Branch(page, current_view), current_view)
    /\ UNCHANGED <<page, scraped_data, scraping_history, attempts, outcome>>
    /\ UNCHANGED <<vars, subvars>>

\* lines 85-106
ScrapeFullPage ==
    /\ ButtonRun("Web Scraper")
    /\ current_view' = "web"
    /\ \E u \in UrlInputs : \E o \in Outcomes("scrape_website", u) :
           Handler(o, o.ok, Result(o.call, o.arg), "text", u,
                   <<"Web - Full Page">>, o.text)

\* lines 147-175
ScrapeWithSelectors ==
    /\ ButtonRun("Web Scraper")
    /\ current_view' = "web"
    /\ \E u \in {<<"https://example.com">>} :
       \E o \in Outcomes("extract_data_with_selectors", u) :
           Handler(o, o.ok, Result(o.call, o.arg), "structured", u,
                   <<"Web - Custom Selectors">>, o.text)

\* lines 181-213
ExtractTable ==
    /\ ButtonRun("Web Scraper")
    /\ current_view' = "web"
    /\ \E u \in {<<"https://example.com">>} : \E table_number \in TableNumbers :
       \E o \in ReadHtmlOutcomes(u) :
           Handler([o EXCEPT !.wanted = table_number],
                   o.ok /\ o.tables > table_number, Table(u, table_number),
                   "dataframe", u, <<"Web - Table Extraction">>,
                   IF o.ok THEN <<"Table not found">> ELSE o.text)

\* the three Twitter searches: prefix of the query, of the source, suffix
\* of the source, type (lines 237-242, 263-268, 289-294)
TwitterSearches ==
    {[q |-> <<"from:">>, pre |-> <<"Twitter - @">>, post |-> <<>>,
      type |-> <<"Social Media - Twitter User">>],
     [q |-> <<"#">>, pre |-> <<"Twitter - #">>, post |-> <<>>,
      type |-> <<"Social Media - Twitter Hashtag">>],
     [q |-> <<>>, pre |-> <<"Twitter - '">>, post |-> <<"'">>,
      type |-> <<"Social Media - Twitter Keyword">>]}

\* lines 234-306
ScrapeTwitter ==
    /\ ButtonRun("Social Media Scraper")
    /\ current_view' = "social"
    /\ \E s \in TwitterSearches : \E name \in NameInputs :
       \E o \in Outcomes("scrape_twitter", s.q \o name) :
           Handler(o, o.ok, Result(o.call, o.arg), "dataframe",
                   s.pre \o name \o s.post, s.type, o.text)

\* the three Reddit searches (lines 319-324, 345-350, 372-377)
RedditSearches ==
    {[kind |-> "subreddit", pre |-> <<"Reddit - r/">>, post |-> <<>>,
      type |-> <<"Social Media - Reddit Subreddit">>],
     [kind |-> "user", pre |-> <<"Reddit - u/">>, post |-> <<>>,
      type |-> <<"Social Media - Reddit User">>],
     [kind |-> "search", pre |-> <<"Reddit - Search: '">>, post |-> <<"'">>,
      type |-> <<"Social Media - Reddit Search">>]}

\* lines 316-389
ScrapeReddit ==
    /\ ButtonRun("Social Media Scraper")
    /\ current_view' = "social"
    /\ \E s \in RedditSearches : \E name \in NameInputs :
       \E o \in Outcomes("scrape_reddit", <<s.kind>> \o name) :
           Handler(o, o.ok, Result(o.call, o.arg), "dataframe",
                   s.pre \o name \o s.post, s.type, o.text)

\* lines 641-644; the button is there only with a non-empty history
ClearHistory ==
    /\ ButtonRun("Scraping History")
    /\ scraping_history # <<>>
    /\ scraping_history' = <<>>
    /\ rerun' = TRUE
    /\ UNCHANGED <<current_view, scraped_data, attempts, outcome>>
    /\ UNCHANGED <<vars, subvars>>

AppInit == SessionInit /\ CallIdle /\ SubIdle

AppNext ==
    \/ SelectPage
    \/ ClickWebScraping
    \/ ClickSocialMediaScraping
    \/ Rerun
    \/ ScrapeFullPage
    \/ ScrapeWithSelectors
    \/ ExtractTable
    \/ ScrapeTwitter
    \/ ScrapeReddit
    \/ ClearHistory

AppSpec == AppInit /\ [][AppNext]_appvars


(***************************************************************************)
(* The subprocess fallbacks of src/social_media_scraper.py:                *)
(* _scrape_twitter_subprocess (56-114), _scrape_reddit_subprocess          *)
(* (262-333).  A DataFrame is the set of its column names and whether it   *)
(* has rows.                                                               *)
(***************************************************************************)
Fallbacks == {"twitter", "reddit"}

ScrapeTypes == {"subreddit", "user", "search", "top"}

\* lines 283-288
ValidScrapeTypes == {"subreddit", "user", "search"}

Queries == {<<"python">>, <<"from:", "nasa">>}

Limits == {10, 100}

\* names tempfile may give, and what else may lie in the directory
TmpNames == {"tmpa.json", "tmpb.json"}
OtherFiles == {"notes.json"}

Frame(columns, empty) == [columns |-> columns, empty |-> empty]

\* what pd.read_json may give for the output of snscrape
Frames ==
    {Frame({}, TRUE),
     Frame({"date", "id", "content", "username", "likeCount", "url"}, FALSE),
     Frame({"date", "id", "content", "user", "url"}, FALSE),
     Frame({"id", "title", "author", "url"}, FALSE)}

\* lines 89-100
RenamedColumn(c) ==
    CASE c = "username" -> "user"
      [] c = "retweetCount" -> "retweet_count"
      [] c = "likeCount" -> "like_count"
      [] c = "replyCount" -> "reply_count"
      [] c = "lang" -> "language"
      [] c = "sourceLabel" -> "source"
      [] OTHER -> c

\* lines 88-104; lines 103-104 change values of the user column, no column
TwitterColumns(frame) ==
    IF frame.empty THEN frame
    ELSE Frame({RenamedColumn(c) : c \in frame.columns}, FALSE)

\* line 307 raises KeyError on a frame with rows and no date column
RedditRaises(frame) == ~frame.empty /\ "date" \notin frame.columns

\* lines 310-323: the column added when it is missing and its source is there
Added(columns, new, from) ==
    IF new \notin columns /\ from \in columns THEN {new} ELSE {}

\* lines 305-323
RedditColumns(frame) ==
    IF frame.empty THEN frame
    ELSE LET cols == frame.columns \cup {"created_utc"} IN
         Frame(cols \cup Added(cols, "title", "content")
                    \cup Added(cols, "author", "username")
                    \cup Added(cols, "score", "upvoteCount")
                    \cup Added(cols, "num_comments", "commentCount")
                    \cup Added(cols, "permalink", "url"),
               FALSE)

Exc(type, text) == [type |-> type, text |-> text]

\* lines 109 and 328
WrappedText(f, text) ==
    (IF f = "twitter" THEN <<"Failed to scrape Twitter data: ">>
                      ELSE <<"Failed to scrape Reddit data: ">>) \o text

SubInit ==
    /\ fn \in Fallbacks
    /\ scrape_type \in (IF fn = "reddit" THEN ScrapeTypes ELSE {""})
    /\ query \in Queries
    /\ max_results \in Limits
    /\ spc = "call"
    /\ files \in SUBSET OtherFiles
    /\ tmp_filename = <<>>
    /\ created = {}
    /\ df = <<>>
    /\ raised = <<>>
    /\ CallIdle
    /\ SessionInit

\* lines 73 and 283-290
SubEnter ==
    /\ spc = "call"
    /\ IF fn = "reddit" /\ scrape_type \notin ValidScrapeTypes
       THEN /\ raised' = <<Exc("ValueError", <<"Invalid scrape type: ", scrape_type>>)>>
            /\ spc' = "raised"
       ELSE /\ spc' = "create"
            /\ UNCHANGED raised
    /\ UNCHANGED <<fn, scrape_type, query, max_results, files, tmp_filename,
                   created, df>>
    /\ UNCHANGED <<vars, appvars>>

\* lines 76-77 and 293-294: a file with a fresh name is created, or the
\* directory cannot take one and OSError leaves the call
CreateTemp ==
    /\ spc = "create"
    /\ \/ \E name \in TmpNames \ files :
              /\ files' = files \cup {name}
              /\ created' = created \cup {name}
              /\ tmp_filename' = <<name>>
              /\ spc' = "run"
              /\ UNCHANGED raised
       \/ /\ raised' = <<Exc("OSError", <<"No usable temporary directory">>)>>
          /\ spc' = "raised"
          /\ UNCHANGED <<files, created, tmp_filename>>
    /\ UNCHANGED <<fn, scrape_type, query, max_results, df>>
    /\ UNCHANGED <<vars, appvars>>

\* lines 81-82 and 298-299: the shell writes the output over the file; with
\* check=True a non-zero exit raises CalledProcessError
RunCommand ==
    /\ spc = "run"
    /\ \/ spc' = "read" /\ UNCHANGED raised
       \/ /\ raised' = <<Exc("CalledProcessError", <<"returned non-zero exit status">>)>>
          /\ spc' = "except"
    /\ UNCHANGED <<fn, scrape_type, query, max_results, files, tmp_filename,
                   created, df>>
    /\ UNCHANGED <<vars, appvars>>

\* lines 85 and 302: the output is read, or is not readable
ReadJson ==
    /\ spc = "read"
    /\ \/ \E frame \in Frames : df' = <<frame>> /\ spc' = "columns" /\ UNCHANGED raised
       \/ /\ raised' = <<Exc("ValueError", <<"Expected object or value">>)>>
          /\ spc' = "except"
          /\ UNCHANGED df
    /\ UNCHANGED <<fn, scrape_type, query, max_results, files, tmp_filename, created>>
    /\ UNCHANGED <<vars, appvars>>

\* lines 88-106 and 305-325, up to the return statement
Columns ==
    /\ spc = "columns"
    /\ IF fn = "twitter"
       THEN df' = <<TwitterColumns(df[1])>> /\ spc' = "finally" /\ UNCHANGED raised
       ELSE IF RedditRaises(df[1])
       THEN /\ raised' = <<Exc("KeyError", <<"'date'">>)>>
            /\ spc' = "except"
            /\ UNCHANGED df
       ELSE df' = <<RedditColumns(df[1])>> /\ spc' = "finally" /\ UNCHANGED raised
    /\ UNCHANGED <<fn, scrape_type, query, max_results, files, tmp_filename, created>>
    /\ UNCHANGED <<vars, appvars>>

\* lines 108-109 and 327-328
Except ==
    /\ spc = "except"
    /\ raised' = <<Exc("Exception", WrappedText(fn, raised[1].text))>>
    /\ spc' = "finally"
    /\ UNCHANGED <<fn, scrape_type, query, max_results, files, tmp_filename,
                   created, df>>
    /\ UNCHANGED <<vars, appvars>>

\* Remove that leaves the file where it is
KeepFile(fs, name) == fs

\* lines 113-114 and 332-333
Remove(fs, name) == IF name \in fs THEN fs \ {name} ELSE fs

\* lines 111-114 and 330-333, then the return or the raise goes on
Finally ==
    /\ spc = "finally"
    /\ files' = Remove(files, tmp_filename[1])
    /\ IF raised = <<>>
       THEN spc' = "returned" /\ UNCHANGED df
       ELSE spc' = "raised" /\ df' = <<>>
    /\ UNCHANGED <<fn, scrape_type, query, max_results, tmp_filename, created, raised>>
    /\ UNCHANGED <<vars, appvars>>

SubNext ==
    \/ SubEnter
    \/ CreateTemp
    \/ RunCommand
    \/ ReadJson
    \/ Columns
    \/ Except
    \/ Finally

SubSpec == SubInit /\ [][SubNext]_subvars


(***************************************************************************)
(* Properties.                                                             *)
(***************************************************************************)
FieldNames == {selectors[k].field : k \in DOMAIN selectors}

Rows(rows) == {rows[r] : r \in DOMAIN rows}

\* the rows accumulated so far and the rows handed to the caller
AllRows == Rows(results) \cup (IF returned = <<>> THEN {} ELSE Rows(returned[1]))

Finished == pc \in {"done", "failed"}

ConfigMaxPages == Get(pagination_config[1], "max_pages", 1)

Succeeded(k) == responses[k].status = 200

\* the pagination selector finds a link to follow in the k-th page fetched
NextLinkOn(k) ==
    HasNextLink(SelectOne(responses[k].doc, Get(pagination_config[1], "selector", "")))

\* C1: every row accumulated or returned has exactly the field names of the
\* selector map as its keys, whatever matched and in list or single mode.
C1_SchemaComplete == \A row \in AllRows : DOMAIN row = FieldNames

\* a returned result with rows of a list page and of a single page, one of
\* them with a field that matched nothing
C1_Witness ==
    /\ pc = "done"
    /\ Len(selectors) = 2
    /\ Len(responses) = 2
    /\ responses[1].doc = DocList3
    /\ responses[2].doc = DocEmptyHref
    /\ Len(returned[1]) >= 3
    /\ \E row \in Rows(returned[1]) : \E f \in FieldNames : row[f] = EmptyStr

\* C2: no accumulated or returned row has all its fields empty, at every
\* point of the loop.
C2_NoEmptyRow == \A row \in AllRows : \E f \in DOMAIN row : row[f] # EmptyStr

\* the third item of a list page was all-empty and left out, the first two
\* were kept
C2_Witness ==
    /\ pc = "paginate"
    /\ soup = <<DocList3>>
    /\ ~AttrGiven(attribute_name)
    /\ i = 3
    /\ ~AnyValue(ListItemData(selectors, Len(selectors), soup[1], attribute_name, 2))
    /\ Len(results) = 2

\* C3: without a pagination config, or with enabled=false, the call makes
\* exactly one fetch, whatever the page links to and whatever max_pages says.
C3_SinglePageDefault ==
    (pagination_config = <<>> \/ ~pagination_config[1].enabled) =>
        /\ Len(fetched) <= 1
        /\ Finished => Len(fetched) = 1

\* a call with enabled=false and max_pages > 1 that returned after one
\* fetch of a page that has a next link
C3_Witness ==
    /\ pc = "done"
    /\ pagination_config # <<>>
    /\ ~pagination_config[1].enabled
    /\ ConfigMaxPages > 1
    /\ Len(fetched) = 1
    /\ NextLinkOn(1)

\* C4: with pagination enabled the number of fetches never exceeds
\* max_pages (no fetch at all when max_pages is below 1).
C4_PageBound ==
    PaginationEnabled(pagination_config) =>
        Len(fetched) <= (IF ConfigMaxPages < 0 THEN 0 ELSE ConfigMaxPages)

\* max_pages fetches were made and the last page still had a next link
C4_Witness ==
    /\ pc = "done"
    /\ PaginationEnabled(pagination_config)
    /\ ConfigMaxPages >= 2
    /\ Len(fetched) = ConfigMaxPages
    /\ NextLinkOn(Len(fetched))


FetchFailed == \E k \in DOMAIN responses : ~Succeeded(k)

\* the selector of a field
FieldSelector(f) ==
    selectors[CHOOSE k \in DOMAIN selectors : selectors[k].field = f].selector

\* the row made of the idx-th match of every field (counted from 0)
CandidateRow(doc, idx) ==
    [f \in FieldNames |->
        IF idx < Len(doc[FieldSelector(f)])
        THEN Extract(doc[FieldSelector(f)][idx + 1], attribute_name)
        ELSE EmptyStr]

NonEmptyRow(row) == \E f \in DOMAIN row : row[f] # EmptyStr

\* the non-empty candidate rows idx .. n-1 of a page, in order
RECURSIVE CandidateRows(_, _, _)
CandidateRows(doc, idx, n) ==
    IF idx >= n THEN <<>>
    ELSE (IF NonEmptyRow(CandidateRow(doc, idx)) THEN <<CandidateRow(doc, idx)>> ELSE <<>>)
             \o CandidateRows(doc, idx + 1, n)

MostMatches(doc) ==
    CHOOSE n \in {Len(doc[FieldSelector(f)]) : f \in FieldNames} :
        \A f \in FieldNames : Len(doc[FieldSelector(f)]) <= n

\* the rows one page contributes
PageRows(doc) ==
    IF Len(doc[selectors[1].selector]) > 1
    THEN CandidateRows(doc, 0, MostMatches(doc))
    ELSE CandidateRows(doc, 0, 1)

\* the rows the first k pages fetched contribute
RECURSIVE RowsOfPages(_)
RowsOfPages(k) ==
    IF k = 0 THEN <<>> ELSE RowsOfPages(k - 1) \o PageRows(responses[k].doc)

\* C5 (as claimed): with an empty selector map, and a url requests can
\* fetch, no fetch is ever made, a failure is an InvalidInput failure, and
\* the call does not return normally when the page budget is at least 1.
C5_EmptyMapRejected ==
    (selectors = <<>> /\ FetchResponses(url) = Responses) =>
        /\ fetched = <<>>
        /\ pc = "failed" => error[1].cause = "InvalidInput"
        /\ MaxPagesOf(pagination_config) >= 1 => pc # "done"

\* C6: once the fetch of a page has failed, the call has ended in failure
\* and the caller receives no rows, whatever earlier pages gave.
C6_FailureReturnsNothing == FetchFailed => (pc = "failed" /\ returned = <<>>)

\* the second page's fetch failed after rows were taken from the first
C6_Witness ==
    /\ pc = "failed"
    /\ Len(responses) = 2
    /\ ~Succeeded(2)
    /\ results # <<>>

\* C7: a failed fetch is the last fetch of the call.
C7_NoRetry ==
    /\ Len(fetched) = Len(responses)
    /\ \A k \in DOMAIN responses : ~Succeeded(k) => k = Len(responses)

\* the first fetch failed although the page budget allowed more
C7_Witness ==
    /\ pc = "failed"
    /\ Len(responses) = 1
    /\ ~Succeeded(1)
    /\ max_pages >= 2

\* C8: with pagination enabled, a processed page on which the pagination
\* selector finds no element, or one without a link target, is the last
\* page fetched, and the call returns the rows of the pages fetched so far.
C8_StopsWithoutNextLink ==
    (/\ PaginationEnabled(pagination_config)
     /\ ~SelectRaises(Get(pagination_config[1], "selector", ""))) =>
        \A k \in DOMAIN responses :
            (Succeeded(k) /\ ~NextLinkOn(k)) =>
                /\ k = Len(responses)
                /\ pc \notin {"sleep", "while", "fetch"}
                /\ pc = "done" => returned = <<RowsOfPages(k)>>

\* max_pages 3, the second page has no next link: the call returned after
\* two fetches with rows of both pages
C8_Witness ==
    /\ pc = "done"
    /\ PaginationEnabled(pagination_config)
    /\ ConfigMaxPages = 3
    /\ Len(responses) = 2
    /\ ~NextLinkOn(2)
    /\ PageRows(responses[1].doc) # <<>>
    /\ PageRows(responses[2].doc) # <<>>
    /\ returned = <<RowsOfPages(2)>>


\* the text content of an element with the white space at its two ends removed
TrimmedText(el) == Strip(Concat(el.strings))

\* the elements of the pages fetched that the selector of field f matches
MatchedElements(f) ==
    UNION {{responses[k].doc[FieldSelector(f)][n] :
                n \in DOMAIN responses[k].doc[FieldSelector(f)]} :
           k \in {j \in DOMAIN responses : Succeeded(j)}}

\* C9 (as claimed): with an attribute name every non-empty field value is
\* that attribute of an element its selector matched; with attribute_name
\* omitted it is the trimmed text content of such an element.
C9_AttributeOrTrimmedText ==
    \A row \in AllRows : \A f \in DOMAIN row :
        row[f] # EmptyStr =>
            /\ AttrGiven(attribute_name) =>
                   \E el \in MatchedElements(f) :
                       /\ attribute_name[1] \in DOMAIN el.attrs
                       /\ row[f] = el.attrs[attribute_name[1]]
            /\ attribute_name = <<>> =>
                   \E el \in MatchedElements(f) : row[f] = TrimmedText(el)

\* the URL up to the end of its host: scheme, "://" and what follows up to
\* the first "/" or "?"
RECURSIVE HostEnd(_, _)
HostEnd(u, k) ==
    IF k < Len(u) /\ u[k + 1] \notin {"/", "?"} THEN HostEnd(u, k + 1) ELSE k

SchemeAndHost(u) ==
    SubSeq(u, 1, HostEnd(u, IF StartsWith(u, HttpsScheme) THEN Len(HttpsScheme)
                                                          ELSE Len(HttpScheme)))

\* C10 (as claimed): a next-link target that begins with "/" makes the next
\* fetch target the scheme and host of the current URL followed by the
\* target.
C10_RootedTarget ==
    (pc = "detect" /\ Len(fetched) >= 2 /\ StartsWith(next_href[1], <<"/">>)) =>
        fetched[Len(fetched)] =
            SchemeAndHost(fetched[Len(fetched) - 1]) \o next_href[1]


\* the last fetch was made for the link target kept in next_href
FollowedLink ==
    /\ pc \in {"detect", "failed"}
    /\ Len(fetched) >= 2
    /\ next_href # <<>>

LastFetched == fetched[Len(fetched)]
FetchedBefore == fetched[Len(fetched) - 1]

\* index of the first ":" of a string, 0 when it has none
RECURSIVE FirstColon(_, _)
FirstColon(s, k) ==
    IF k > Len(s) THEN 0 ELSE IF s[k] = ":" THEN k ELSE FirstColon(s, k + 1)

\* an absolute URL: a scheme, then "://"
IsAbsoluteUrl(s) ==
    LET c == FirstColon(s, 1) IN
        /\ c > 1
        /\ \A k \in 1 .. (c - 1) : s[k] \notin {"/", "?", " "}
        /\ Len(s) >= c + 2
        /\ s[c + 1] = "/"
        /\ s[c + 2] = "/"

\* a string with its last "/"-separated segment, and the "/" before it,
\* stripped
RECURSIVE DropLastSegment(_)
DropLastSegment(s) ==
    IF s = <<>> THEN <<>>
    ELSE IF s[Len(s)] = "/" THEN SubSeq(s, 1, Len(s) - 1)
    ELSE DropLastSegment(SubSeq(s, 1, Len(s) - 1))

DirectoryTarget(cur, href) == DropLastSegment(cur) \o <<"/">> \o href

\* C11 (as claimed): a next-link target that is neither absolute nor begins
\* with "/" makes the next fetch target the current URL without its last
\* segment, followed by "/" and the target.
C11_RelativeTarget ==
    (/\ FollowedLink
     /\ ~IsAbsoluteUrl(next_href[1])
     /\ ~StartsWith(next_href[1], <<"/">>)) =>
        LastFetched = DirectoryTarget(FetchedBefore, next_href[1])

\* C12 (as claimed): a next-link target is the next fetch target unchanged
\* exactly when it is an absolute URL, and any other target is resolved by
\* the rooted rule or by the directory rule.
C12_UnchangedIffAbsolute ==
    FollowedLink =>
        /\ (LastFetched = next_href[1]) <=> IsAbsoluteUrl(next_href[1])
        /\ ~IsAbsoluteUrl(next_href[1]) =>
               \/ /\ StartsWith(next_href[1], <<"/">>)
                  /\ RootedUrl(FetchedBefore, next_href[1]) = <<LastFetched>>
               \/ LastFetched = DirectoryTarget(FetchedBefore, next_href[1])


\* C13 (as claimed): whatever the field selectors and the pagination
\* selector are, malformed or matching nothing, a call with a non-empty
\* selector map whose fetches all succeed does not fail.
C13_SelectorsNeverFail == (selectors # <<>> /\ ~FetchFailed) => pc # "failed"


\* s holds sub as a contiguous part
Contains(s, sub) ==
    \E k \in 1 .. (Len(s) - Len(sub) + 1) : SubSeq(s, k, k + Len(sub) - 1) = sub

\* C14 (as claimed): the failure a failed fetch surfaces carries the URL
\* whose fetch was attempted and the underlying cause.
C14_FailureCarriesUrl ==
    (pc = "failed" /\ FetchFailed) =>
        /\ Contains(error[1].message, LastFetched)
        /\ error[1].cause \in {"RequestException", "HTTPError"}


Max0(n) == IF n < 0 THEN 0 ELSE n

\* loop iterations the page budget still allows
IterationsLeft ==
    IF pc = "call" THEN Max0(MaxPagesOf(pagination_config))
    ELSE Max0(max_pages - page_count)

\* how far the call is from the end of the current iteration
StepsLeft ==
    CASE pc = "call" -> 8
      [] pc = "sleep" -> 7
      [] pc = "while" -> 6
      [] pc = "fetch" -> 5
      [] pc = "detect" -> 4
      [] pc \in {"list", "single"} -> 3
      [] pc = "paginate" -> 2
      [] pc = "return" -> 1
      [] OTHER -> 0

ItemsLeft == IF pc = "list" THEN max_items - i ELSE 0

\* every step brings the call nearer to its end: fewer iterations left, or
\* as many and fewer steps left in this one, or as many and fewer items
Progress ==
    \/ IterationsLeft' < IterationsLeft
    \/ IterationsLeft' = IterationsLeft /\ StepsLeft' < StepsLeft
    \/ IterationsLeft' = IterationsLeft /\ StepsLeft' = StepsLeft
           /\ ItemsLeft' < ItemsLeft /\ ItemsLeft' >= 0

\* C15: whatever the pages hold and link to, the call ends (returns or
\* fails), and every step of it uses up the budget max_pages gives: no
\* step leaves the number of iterations left, the steps left in the
\* iteration and the items left on the page all as they were.
C15_Terminates == <>Finished /\ [][Progress]_vars

\* a call that ended although the page it reached links to itself
C15_Witness ==
    /\ pc = "done"
    /\ Len(fetched) = 3
    /\ fetched[2] = fetched[3]
    /\ NextLinkOn(3)


\* number of elements the selector of the first field matches on a document
FirstFieldMatches(doc) == Len(doc[selectors[1].selector])

\* the page being processed is processed in list mode / in single mode
InListMode == pc = "list" \/ (pc = "paginate" /\ FirstFieldMatches(soup[1]) > 1)
InSingleMode == pc = "single" \/ (pc = "paginate" /\ FirstFieldMatches(soup[1]) <= 1)

C17_AnySelectorListMode ==
    pc = "single" =>
        \A k \in DOMAIN selectors :
            SelectRaises(selectors[k].selector)
                \/ Len(soup[1][selectors[k].selector]) <= 1


\* the rows gathered before the page being processed
RowsBefore == RowsOfPages(Len(responses) - 1)

\* C18: on a list-mode page max_items is the largest number of matches of
\* any field, candidate row idx (from 0) holds for each field the value of
\* its idx-th match or the empty string, the non-empty candidates are
\* appended in order, and the page adds at most max_items rows.
C18_ListRows ==
    InListMode =>
        /\ max_items = MostMatches(soup[1])
        /\ i <= max_items
        /\ pc = "paginate" => i = max_items
        /\ results = RowsBefore \o CandidateRows(soup[1], 0, i)
        /\ Len(results) - Len(RowsBefore) <= max_items

\* a list page done: the second of its three candidate rows has a field
\* with too few matches and is kept with that field empty
C18_Witness ==
    /\ pc = "paginate"
    /\ soup = <<DocList3>>
    /\ selectors = << Sel("title", "h2"), Sel("link", "a") >>
    /\ attribute_name = <<>>
    /\ max_items = 3
    /\ Len(results) = 2
    /\ results[2]["link"] = EmptyStr
    /\ results[2]["title"] # EmptyStr

C20_DelayBetweenFetches ==
    /\ delays <= Len(fetched)
    /\ Len(fetched) <= delays + 1
    /\ pc = "fetch" => delays = Len(fetched)
    /\ pc = "sleep" =>
           (delays = Len(fetched) - 1 /\ page_count = Len(fetched)
                /\ Len(responses) = Len(fetched))
    /\ pc \in {"detect", "list", "single", "paginate"} => delays = Len(fetched) - 1

\* the third fetch is about to be made after two delays
C20_Witness ==
    /\ pc = "fetch"
    /\ Len(fetched) = 2
    /\ delays = 2


\* the link target of the first element the pagination selector matches on
\* the k-th page fetched: <<>> without such an element or without a target
NextLinkHref(k) ==
    LET matches == responses[k].doc[Get(pagination_config[1], "selector", "")]
    IN  IF matches = <<>> THEN <<>>
        ELSE IF "href" \notin DOMAIN matches[1].attrs THEN <<>>
        ELSE IF matches[1].attrs["href"] = EmptyStr THEN <<>>
        ELSE <<matches[1].attrs["href"]>>

\* C21: the first fetch of a call is made for the caller's url as given,
\* and every later fetch for the URL resolved (lines 156-169) from the next
\* link of the page fetched just before it; the URL about to be fetched is
\* that URL too, so no other URL is fetched.
C21_FetchTargets ==
    /\ fetched # <<>> => fetched[1] = url
    /\ \A k \in 2 .. Len(fetched) :
           /\ Succeeded(k - 1)
           /\ NextLinkHref(k - 1) # <<>>
           /\ <<fetched[k]>> = NextUrl(fetched[k - 1], NextLinkHref(k - 1)[1])
    /\ pc = "fetch" =>
           current_url = (IF fetched = <<>> THEN url
                          ELSE NextUrl(LastFetched, NextLinkHref(Len(fetched))[1])[1])

\* three fetches: of the url, of the page its next link resolves to, and of
\* the page that one's first next link (of two) resolves to
C21_Witness ==
    /\ Len(fetched) = 3
    /\ fetched[1] = url
    /\ fetched[2] # fetched[1]
    /\ responses[2].status = 200
    /\ responses[2].doc = DocList2
    /\ fetched[3] = RelativeUrl(fetched[2], HrefRelative)[1]


\* s is the beginning of t
IsPrefix(s, t) == Len(s) <= Len(t) /\ SubSeq(t, 1, Len(s)) = s

\* the rows gathered so far are those of the pages processed, page after
\* page in the order of their fetches, then those of the page being
\* processed, by element index
RowsInOrder ==
    /\ pc \in {"sleep", "while", "fetch", "return", "done"} =>
           results = RowsOfPages(Len(responses))
    /\ pc = "list" => results = RowsBefore \o CandidateRows(soup[1], 0, i)
    /\ pc = "done" => returned = <<results>>

\* C22: the rows are ordered by page, in the order the pages were fetched,
\* and within a list-mode page by element index; every step of the call
\* leaves the rows gathered so far as the beginning of the rows gathered
\* after it: rows are appended, never removed or reordered.
C22_PageThenIndexOrder == []RowsInOrder /\ [][IsPrefix(results, results')]_vars

\* a result made of the two rows of a list-mode page and, after them, the
\* row of the page fetched next
C22_Witness ==
    /\ pc = "done"
    /\ Len(responses) = 2
    /\ Len(PageRows(responses[1].doc)) = 2
    /\ FirstFieldMatches(responses[1].doc) > 1
    /\ Len(PageRows(responses[2].doc)) = 1
    /\ PageRows(responses[2].doc)[1] \notin Rows(PageRows(responses[1].doc))
    /\ returned[1] = PageRows(responses[1].doc) \o PageRows(responses[2].doc)


\* C23 (as claimed): a call that made a fetch and has ended made one delay
\* fewer than fetches: no delay after the last page fetched.
C23_NoDelayAfterLastFetch ==
    (Finished /\ fetched # <<>>) => delays = Len(fetched) - 1

\* C24 (as claimed): a next-link target that is not absolute (and does not
\* begin with "http" either) makes the next fetch target a URL with the
\* scheme and host of the current URL, also for a current URL without a
\* path after its host.
C24_SameSchemeAndHost ==
    (/\ FollowedLink
     /\ ~IsAbsoluteUrl(next_href[1])
     /\ ~StartsWith(next_href[1], Http)) =>
        SchemeAndHost(LastFetched) = SchemeAndHost(FetchedBefore)

\* C25: with pagination enabled and max_pages below 1 the call makes no
\* fetch, does not fail, and what it returns is the empty list.
C25_NoPageBudget ==
    (PaginationEnabled(pagination_config) /\ ConfigMaxPages < 1) =>
        /\ fetched = <<>>
        /\ pc # "failed"
        /\ error = <<>>
        /\ pc \in {"call", "while", "return", "done"}
        /\ pc = "done" => returned = << <<>> >>

\* a call with max_pages -1, an empty selector map and a url that cannot be
\* fetched has returned the empty list
C25_Witness ==
    /\ pc = "done"
    /\ PaginationEnabled(pagination_config)
    /\ ConfigMaxPages = -1
    /\ selectors = <<>>
    /\ url = UrlNoScheme
    /\ fetched = <<>>
    /\ returned = << <<>> >>


(***************************************************************************)
(* Properties of the app (AppSpec).                                        *)
(***************************************************************************)
\* C26 (as claimed): after a script run, with Data Visualization, Export
\* Data or Scraping History selected in the sidebar, the page on the screen
\* is the page selected.
C26_RendersSelectedPage ==
    (~rerun /\ page \in {"Data Visualization", "Export Data", "Scraping History"}) =>
        rendered = page

\* C27 (as claimed): the rerun that follows a click on the Home page's
\* Web Scraping (Social Media Scraping) button, the sidebar still on Home,
\* renders the Web Scraper (Social Media Scraper) page.
C27_QuickActionOpensPage ==
    [][/\ (rerun /\ page = "Home" /\ current_view = "web") =>
              rendered' = "Web Scraper"
       /\ (rerun /\ page = "Home" /\ current_view = "social") =>
              rendered' = "Social Media Scraper"]_appvars

\* the scrape of an attempt succeeded: its call returned, and gave the
\* table asked for
Worked(o) == o.ok /\ (o.call = "read_html" => o.tables > o.wanted)

HistoryStatuses ==
    \A k \in DOMAIN scraping_history :
        \/ scraping_history[k].status = <<"Success">>
        \/ /\ scraping_history[k].status[1] = "Failed"
           /\ scraping_history[k].status # <<"Success">>

\* what a step does to the history: a scrape attempt adds one entry at its
\* end, with the status of the attempt; any other step leaves it as it is,
\* or empties it by the Clear History button
HistoryStep ==
    IF attempts' = attempts + 1
    THEN /\ Len(scraping_history') = Len(scraping_history) + 1
         /\ IsPrefix(scraping_history, scraping_history')
         /\ LET entry == scraping_history'[Len(scraping_history')] IN
                IF Worked(outcome'[1])
                THEN entry.status = <<"Success">>
                ELSE entry.status[1] = "Failed"
    ELSE \/ scraping_history' = scraping_history
         \/ /\ scraping_history' = <<>>
            /\ rendered = "Scraping History"
            /\ rerun'

TypeOf(call) ==
    IF call = "scrape_website" THEN "text"
    ELSE IF call = "extract_data_with_selectors" THEN "structured"
    ELSE "dataframe"

SourcesOf(o) ==
    IF o.call = "scrape_twitter"
    THEN UNION {{s.pre \o name \o s.post :
                     s \in {t \in TwitterSearches : o.arg = t.q \o name}} :
                name \in NameInputs}
    ELSE IF o.call = "scrape_reddit"
    THEN UNION {{s.pre \o name \o s.post :
                     s \in {t \in RedditSearches : o.arg = <<t.kind>> \o name}} :
                name \in NameInputs}
    ELSE {o.arg}

\* the data a successful scrape gave
DataOf(o) ==
    IF o.call = "read_html" THEN <<o.call>> \o o.arg \o <<ToString(o.wanted)>>
    ELSE <<o.call>> \o o.arg

\* d is what the scrape o kept: its data, under its type and its source
KeptFrom(d, o) ==
    /\ d.data = DataOf(o)
    /\ d.type = TypeOf(o.call)
    /\ d.source \in SourcesOf(o)

\* the data kept names the call that gave it: type and source agree with it
Describes(d) ==
    /\ d.type = TypeOf(d.data[1])
    /\ d.data[1] \in {"scrape_website", "extract_data_with_selectors"} =>
           d.source = Tail(d.data)
    /\ d.data[1] = "read_html" => d.source = SubSeq(d.data, 2, Len(d.data) - 1)
    /\ d.data[1] = "scrape_twitter" =>
           \E s \in TwitterSearches : \E name \in NameInputs :
               d.data = <<"scrape_twitter">> \o s.q \o name
                   /\ d.source = s.pre \o name \o s.post
    /\ d.data[1] = "scrape_reddit" =>
           \E s \in RedditSearches : \E name \in NameInputs :
               d.data = <<"scrape_reddit", s.kind>> \o name
                   /\ d.source = s.pre \o name \o s.post

DataStep ==
    /\ (attempts' = attempts + 1 /\ ~Worked(outcome'[1])) =>
           scraped_data' = scraped_data
    /\ (attempts' = attempts + 1 /\ Worked(outcome'[1])) =>
           (scraped_data' # <<>> /\ KeptFrom(scraped_data'[1], outcome'[1]))
    /\ attempts' = attempts => scraped_data' = scraped_data

\* C29: a failed scrape attempt leaves scraped_data as it was; scraped_data
\* changes only by a successful scrape, which puts its own data there, and
\* the source and the type kept with the data are those of the scrape that
\* gave the data.
C29_DataOnlyBySuccess ==
    [](scraped_data # <<>> => Describes(scraped_data[1])) /\ [][DataStep]_appvars

\* the full page of a url was scraped, then a scrape of another kind
\* failed: the page's text is still there, with the history cleared or not
C29_Witness ==
    /\ attempts = 2
    /\ ~outcome[1].ok
    /\ outcome[1].call = "scrape_reddit"
    /\ scraped_data # <<>>
    /\ scraped_data[1].type = "text"
    /\ scraped_data[1].source = <<"https://example.org/t">>
    /\ rendered = "Data Visualization"


(***************************************************************************)
(* Properties of the subprocess fallbacks (SubSpec).                       *)
(***************************************************************************)
Ended == spc \in {"returned", "raised"}

\* C30: when a call of a subprocess fallback has ended, by returning a
\* DataFrame or by raising (the command failed, its output was unreadable),
\* no file the call created exists any more; and a call with an invalid
\* Reddit scrape_type creates no file at all and ends with ValueError.
C30_TempFileRemoved ==
    /\ Ended => created \cap files = {}
    /\ spc = "returned" => (df # <<>> /\ raised = <<>> /\ created # {})
    /\ (fn = "reddit" /\ scrape_type \notin ValidScrapeTypes) =>
           /\ created = {}
           /\ tmp_filename = <<>>
           /\ spc \in {"call", "raised"}
           /\ spc = "raised" => raised[1].type = "ValueError"

\* a Reddit call whose output had rows and no date column ended by raising,
\* after it had created its file; the file that was there before is still
\* there
C30_Witness ==
    /\ spc = "raised"
    /\ fn = "reddit"
    /\ created # {}
    /\ tmp_filename[1] \in created
    /\ raised[1].type = "Exception"
    /\ files = OtherFiles

====
